---- MODULE Spec2Model ----
(***************************************************************************)
(* Route planning of alyssas-treasure-finder: the optimize-route edge      *)
(* function (supabase/functions/optimize-route/index.ts).  The heuristic   *)
(* handler geocodes the addresses, orders the resolved points with         *)
(* nearestNeighborOrder and twoOpt, and answers with the ordered addresses *)
(* and a Google Maps directions URL.                                       *)
(* The page that collects the stops, EstateSalesScraper                    *)
(* (src/components/EstateSalesScraper.tsx), is modelled by its selection   *)
(* and Plan Route handlers.                                                *)
(*                                                                         *)
(* Indices and tour positions are 0-based as in the source; TLA+ sequences *)
(* are 1-based, so entry i of a JavaScript array a is a[i + 1] here.       *)
(***************************************************************************)
EXTENDS Integers, Sequences, FiniteSets, TLC

\* ------------------------------------------------------------------ bounds
\* Longest list of points handed to the optimizer on its own.
MaxPoints == 4
\* Longest addresses array of a request.
MaxAddrs == 3
\* Coordinates lie on the grid {0, 1} x 0..LngMax.
LngMax == 2
\* Most passes of the while loop of twoOpt that are followed.
MaxPasses == 4
\* Longest tour handed to twoOpt on its own.
MaxTour == 5
\* Most estate sales selected at a time.
MaxSelected == 3
\* Longest urls array of a firecrawl-scrape-batch request.
MaxUrls == 4

\* ------------------------------------------------------ JavaScript numbers
\* A JavaScript number is finite, +Infinity or NaN.
Fin(v) == [k |-> "fin", v |-> v]
NaN == [k |-> "nan", v |-> 0]
Infinity == [k |-> "inf", v |-> 1]
NegInfinity == [k |-> "inf", v |-> -1]
IsFinite(x) == x.k = "fin"

\* x + y and x - y on haversine results and their sums: NaN propagates.
FAdd(x, y) == IF IsFinite(x) /\ IsFinite(y) THEN Fin(x.v + y.v) ELSE NaN
FSub(x, y) == IF IsFinite(x) /\ IsFinite(y) THEN Fin(x.v - y.v) ELSE NaN

\* The comparison turned around: x > y, and anything below Infinity.
FGreater(x, y) == /\ IsFinite(x)
                  /\ \/ y.k = "inf"
                     \/ IsFinite(y) /\ x.v > y.v

\* The comparison with equality let through: x <= y.
FLessOrEqual(x, y) == /\ IsFinite(x)
                      /\ \/ y.k = "inf"
                         \/ IsFinite(y) /\ x.v <= y.v

\* x < y for a haversine result x: every comparison with NaN is false.
FLess(x, y) == /\ IsFinite(x)
               /\ \/ y.k = "inf"
                  \/ IsFinite(y) /\ x.v < y.v

\* floor of the square root
Isqrt(x) == CHOOSE r \in 0..x : r * r <= x /\ (r + 1) * (r + 1) > x

\* Entry i (0-based) of a JavaScript array.
At(a, i) == a[i + 1]

\* --------------------------------------------------------------- haversine
\* Distances are counted in units of 1e-6 km, the unit of twoOpt's threshold.
\* One grid step of latitude or longitude is an arc of 10 units, and on so
\* small a patch at the equator 2 R atan2(sqrt c, sqrt(1 - c)) is the planar
\* length of the step vector, rounded here to whole units.  A non-finite
\* latitude or longitude makes dLat or dLon non-finite or NaN, Math.sin of
\* it NaN, and so c, d and R * d NaN.
CoordFinite(a) == IsFinite(a.lat) /\ IsFinite(a.lng)

\* The formula with sin1 in place of sin1 * sin1: c can come out negative,
\* and Math.sqrt of a negative number is NaN.
haversineSin1Unsquared(a, b) ==
    IF CoordFinite(a) /\ CoordFinite(b)
    THEN LET dLat == b.lat.v - a.lat.v
             dLon == b.lng.v - a.lng.v
             c == dLat + dLon * dLon
         IN IF c < 0 THEN NaN ELSE Fin(Isqrt(100 * c))
    ELSE NaN

haversine(a, b) ==
    IF CoordFinite(a) /\ CoordFinite(b)
    THEN LET dLat == b.lat.v - a.lat.v
             dLon == b.lng.v - a.lng.v
         IN Fin(Isqrt(100 * (dLat * dLat + dLon * dLon)))
    ELSE NaN

\* The threshold 1e-6 of twoOpt, in distance units.
Eps == 1

\* The coordinates a point can have: the grid, and one coordinate whose
\* latitude is Infinity (parseFloat of a literal beyond the double range).
GridCoords == {[lat |-> Fin(x), lng |-> Fin(y)] : x \in {0, 1}, y \in 0..LngMax}
NonFiniteCoord == [lat |-> Infinity, lng |-> Fin(0)]
CoordPool == GridCoords \cup {NonFiniteCoord}

\* ----------------------------------------------------------------- strings
\* A string is a sequence of characters.  BigDigits stands for a run of 310
\* digits "9" (a number beyond the range of a double), kept as one element.
BigDigits == "9{310}"
DigitChars == <<"0", "1", "2", "3", "4", "5", "6", "7", "8", "9">>
IsDigit(c) == c = BigDigits \/ \E d \in 1..10 : DigitChars[d] = c
DigitValue(c) == (CHOOSE d \in 1..10 : DigitChars[d] = c) - 1

\* JavaScript values of a request: strings, and the values that are none.
Str(s) == [t |-> "string", s |-> s]
Undefined == [t |-> "undefined", s |-> <<>>]
NumberValue == [t |-> "number", s |-> <<>>]
IsString(x) == x.t = "string"
\* Truthiness, for the values above (a number value here is non-zero).
Truthy(x) == \/ x.t = "number"
             \/ x.t = "string" /\ x.s # <<>>

\* \s* at both ends of s removed.
RECURSIVE TrimLeft(_)
TrimLeft(s) == IF s # <<>> /\ Head(s) = " " THEN TrimLeft(Tail(s)) ELSE s
RECURSIVE TrimRight(_)
TrimRight(s) ==
    IF s # <<>> /\ s[Len(s)] = " " THEN TrimRight(SubSeq(s, 1, Len(s) - 1)) ELSE s
Trim(s) == TrimRight(TrimLeft(s))

\* -?\d+ : the strings of the model hold no ".", so the optional group
\* (?:\.\d+)? of line 138 matches nothing in them.
IsNumberLiteral(s) ==
    LET digits == IF s # <<>> /\ Head(s) = "-" THEN Tail(s) ELSE s
    IN digits # <<>> /\ \A p \in 1..Len(digits) : IsDigit(digits[p])

\* Line 138: the match of /^\s*(-?\d+(?:\.\d+)?)\s*,\s*(-?\d+(?:\.\d+)?)\s*$/,
\* as the pair of its groups, or <<>> when the string does not match.
CoordMatch(s) ==
    LET hits == {p \in 1..Len(s) :
                    /\ s[p] = ","
                    /\ IsNumberLiteral(Trim(SubSeq(s, 1, p - 1)))
                    /\ IsNumberLiteral(Trim(SubSeq(s, p + 1, Len(s))))}
    IN IF hits = {} THEN <<>>
       ELSE LET p == CHOOSE q \in hits : TRUE
            IN <<Trim(SubSeq(s, 1, p - 1)), Trim(SubSeq(s, p + 1, Len(s)))>>

RECURSIVE DigitsValue(_, _)
DigitsValue(s, acc) ==
    IF s = <<>> THEN acc ELSE DigitsValue(Tail(s), 10 * acc + DigitValue(Head(s)))

\* parseFloat of a matched group: a run of more than 309 digits is Infinity.
parseFloat(s) ==
    LET neg == Head(s) = "-"
        digits == IF neg THEN Tail(s) ELSE s
    IN IF \E p \in 1..Len(digits) : digits[p] = BigDigits
       THEN (IF neg THEN NegInfinity ELSE Infinity)
       ELSE Fin((IF neg THEN -1 ELSE 1) * DigitsValue(digits, 0))

\* encodeURIComponent: letters, digits and - _ . ! ~ * ' ( ) stay, every
\* other character becomes the percent escape of its UTF-8 byte.
Unreserved ==
    {"a", "b", "c", "d", "-", "_", ".", "!", "~", "*", "'", "(", ")", BigDigits}
        \cup {DigitChars[d] : d \in 1..10}

PercentEscape(c) ==
    CASE c = " " -> <<"%", "2", "0">>
      [] c = "/" -> <<"%", "2", "F">>
      [] c = "," -> <<"%", "2", "C">>
      [] c = "%" -> <<"%", "2", "5">>
      [] OTHER -> <<"%", "3", "F">>

RECURSIVE encodeURIComponent(_)
encodeURIComponent(s) ==
    IF s = <<>> THEN <<>>
    ELSE (IF Head(s) \in Unreserved THEN <<Head(s)>> ELSE PercentEscape(Head(s)))
             \o encodeURIComponent(Tail(s))

\* parts.join(sep)
RECURSIVE Join(_, _)
Join(parts, sep) ==
    IF parts = <<>> THEN <<>>
    ELSE IF Len(parts) = 1 THEN parts[1]
    ELSE parts[1] \o <<sep>> \o Join(Tail(parts), sep)

\* The head of the template literal of line 204, kept as one element.
MapsDirPrefix == "https://www.google.com/maps/dir/"

\* The URL with the addresses joined as they are.
buildGoogleMapsUrlRaw(addresses) ==
    <<MapsDirPrefix>> \o Join([j \in 1..Len(addresses) |-> addresses[j].s], "/")

\* Lines 202-205, on a list of string values.
buildGoogleMapsUrl(addresses) ==
    LET parts == [j \in 1..Len(addresses) |-> encodeURIComponent(addresses[j].s)]
    IN <<MapsDirPrefix>> \o Join(parts, "/")

\* ------------------------------------------------------------------- state
VARIABLES
    pc,         \* where the computation stands
    points,     \* points: the coordinates handed to the optimizer
    order,      \* order: the tour, a sequence of indices into points
    visited,    \* visited of nearestNeighborOrder
    nnI,        \* the loop counter i of nearestNeighborOrder
    improved,   \* improved of twoOpt
    ti,         \* the loop counter i of twoOpt
    tk,         \* the loop counter k of twoOpt
    nnOrder,    \* history: the tour as nearestNeighborOrder returned it
    reversals,  \* history: number of reversals twoOpt has performed
    optCalls,   \* history: number of times the optimizer was entered
    passes,         \* history: passes of the while loop the running twoOpt began
    passReversals,  \* history: reversals twoOpt performed in its current pass
    prior,          \* history: what the twoOpt call before the running one did
    req,            \* the request: method, body, addresses, startingAddress
    apiKeySet,      \* whether GOOGLE_PLACES_API_KEY is set
    inputAddresses, \* inputAddresses of the handler
    geocoded,       \* per input address, the state of its geocodeAddress call
    fetchIssued,    \* history: the input positions a lookup was sent for
    outOfOrder,     \* history: a lookup was answered before one sent earlier
    valid,          \* valid of the handler
    response,       \* the response of the handler
    selectedSales,   \* selectedSales of EstateSalesScraper
    showRouteDialog, \* showRouteDialog of EstateSalesScraper
    toast,           \* the toast the handler that ran last has shown
    lastHandler,     \* history: the handler of EstateSalesScraper that ran last
    dialogStartingAddress, \* startingAddress of RouteOptimizationDialog
    isOptimizing,    \* isOptimizing of RouteOptimizationDialog
    optimizedRoute,  \* optimizedRoute of RouteOptimizationDialog
    googleMapsUrl,   \* googleMapsUrl of RouteOptimizationDialog
    invokes,         \* the optimize-route requests of the dialog not yet answered
    scrapeReq,       \* firecrawl-scrape-batch: the request (method, body, urls)
    firecrawlKeySet, \* whether FIRECRAWL_API_KEY is set
    batchStart,      \* the loop counter i of firecrawl-scrape-batch
    scrapes,         \* per URL, the state of its scrape: not started, in flight, result
    scrapeCalls,     \* history: per URL, the number of app.scrapeUrl calls made for it
    allResults,      \* allResults of firecrawl-scrape-batch
    scrapeResponse,  \* the response of firecrawl-scrape-batch
    llmReq,          \* the request of the LLM-based optimize-route handler
    llmResponse      \* the response of the LLM-based optimize-route handler

optVars == <<points, order, visited, nnI, improved, ti, tk, nnOrder, reversals,
             optCalls, passes, passReversals, prior>>
hVars == <<req, apiKeySet, inputAddresses, geocoded, fetchIssued, outOfOrder,
           valid, response>>
uiVars == <<selectedSales, showRouteDialog, toast, lastHandler>>
dlgVars == <<dialogStartingAddress, isOptimizing, optimizedRoute, googleMapsUrl, invokes>>
fcVars == <<scrapeReq, firecrawlKeySet, batchStart, scrapes, scrapeCalls, allResults,
            scrapeResponse>>
llmVars == <<llmReq, llmResponse>>
vars == <<pc, optVars, hVars, uiVars, dlgVars, fcVars, llmVars>>

\* ---------------------------------------------------- nearestNeighborOrder
\* Lines 153-156: n, visited, order = [0], visited[0] = true.  Writing
\* visited[0] gives the array one entry even when n = 0.
NNVisitedInit(pts) ==
    [j \in 1..(IF Len(pts) = 0 THEN 1 ELSE Len(pts)) |-> j = 1]

NNOrderInit == <<0>>

\* The scan in which a later index at an equal distance replaces the best.
RECURSIVE NNScanLastWins(_, _, _, _, _)
NNScanLastWins(pts, vis, last, j, acc) ==
    IF j >= Len(pts) THEN acc
    ELSE LET d == haversine(At(pts, last), At(pts, j))
         IN NNScanLastWins(pts, vis, last, j + 1,
                           IF ~At(vis, j) /\ FLessOrEqual(d, acc.bestDist)
                           THEN [best |-> j, bestDist |-> d]
                           ELSE acc)

\* Lines 159-169: the scan over j, from j with the best so far in acc.
RECURSIVE NNScan(_, _, _, _, _)
NNScan(pts, vis, last, j, acc) ==
    IF j >= Len(pts) THEN acc
    ELSE LET d == haversine(At(pts, last), At(pts, j))
         IN NNScan(pts, vis, last, j + 1,
                   IF ~At(vis, j) /\ FLess(d, acc.bestDist)
                   THEN [best |-> j, bestDist |-> d]
                   ELSE acc)

\* The scan without the distances: the first point not yet visited.
NNFirstUnvisited(pts, vis, ord) ==
    IF \E j \in 0..(Len(pts) - 1) : ~At(vis, j)
    THEN CHOOSE j \in 0..(Len(pts) - 1) :
             ~At(vis, j) /\ \A h \in 0..(j - 1) : At(vis, h)
    ELSE -1

NNBest(pts, vis, ord) ==
    NNScan(pts, vis, At(ord, Len(ord) - 1), 0,
           [best |-> -1, bestDist |-> Infinity]).best

\* No call of twoOpt has returned before the running one.
NoPrior == [called |-> FALSE, tour |-> <<>>, reversals |-> 0]

\* nearestNeighborOrder is entered with the points pts.
EnterNearestNeighbor(pts) ==
    /\ points' = pts
    /\ order' = NNOrderInit
    /\ visited' = NNVisitedInit(pts)
    /\ nnI' = 1
    /\ improved' = FALSE
    /\ ti' = 0
    /\ tk' = 0
    /\ nnOrder' = <<>>
    /\ reversals' = 0
    /\ optCalls' = optCalls + 1
    /\ passes' = 0
    /\ passReversals' = 0
    /\ prior' = NoPrior

\* One iteration of the loop of line 157.
NNStep ==
    /\ pc = "nn"
    /\ nnI < Len(points)
    /\ LET best == NNBest(points, visited, order)
       IN IF best >= 0
          THEN /\ visited' = [visited EXCEPT ![best + 1] = TRUE]
               /\ order' = Append(order, best)
          ELSE UNCHANGED <<visited, order>>
    /\ nnI' = nnI + 1
    /\ UNCHANGED <<pc, points, improved, ti, tk, nnOrder, reversals, optCalls,
                   passes, passReversals, prior, hVars, uiVars, dlgVars, fcVars, llmVars>>

\* ------------------------------------------------------------------ twoOpt
\* Line 182: distance between the points at tour positions i1 and i2.
distance(pts, ord, i1, i2) == haversine(At(pts, At(ord, i1)), At(pts, At(ord, i2)))

\* The gain computed with its two sums exchanged.
DeltaExchanged(pts, ord, i, k) ==
    FSub(FAdd(distance(pts, ord, i - 1, k), distance(pts, ord, i, k + 1)),
         FAdd(distance(pts, ord, i - 1, i), distance(pts, ord, k, k + 1)))

\* The gain read off the tour as twoOpt was given it, whatever the reversals
\* performed since.
DeltaOnGivenTour(pts, ord, i, k) ==
    FSub(FAdd(distance(pts, nnOrder, i - 1, i), distance(pts, nnOrder, k, k + 1)),
         FAdd(distance(pts, nnOrder, i - 1, k), distance(pts, nnOrder, i, k + 1)))

\* Line 189.
Delta(pts, ord, i, k) ==
    FSub(FAdd(distance(pts, ord, i - 1, i), distance(pts, ord, k, k + 1)),
         FAdd(distance(pts, ord, i - 1, k), distance(pts, ord, i, k + 1)))

\* The test without its threshold: delta >= 0.
ImprovesOrEqual(delta) == IsFinite(delta) /\ delta.v >= 0

\* Line 190: delta > 1e-6.
Improves(delta) == IsFinite(delta) /\ delta.v > Eps

\* The reversal taken one position too early: positions i-1..k.
ReverseSegmentFromBefore(ord, i, k) ==
    [p \in 1..Len(ord) |->
        IF i <= p /\ p <= k + 1 THEN ord[i + (k + 1) - p] ELSE ord[p]]

\* The reversal carried one position too far: positions i..k+1.
ReverseSegmentThroughNext(ord, i, k) ==
    [p \in 1..Len(ord) |->
        IF i + 1 <= p /\ p <= k + 2 THEN ord[(i + 1) + (k + 2) - p] ELSE ord[p]]

\* Lines 192-193: positions i..k of the tour reversed in place.
ReverseSegment(ord, i, k) ==
    [p \in 1..Len(ord) |->
        IF i + 1 <= p /\ p <= k + 1 THEN ord[(i + 1) + (k + 1) - p] ELSE ord[p]]

\* The length check with < in place of <=.
TwoOptSkipsBelowThree(n) == n < 3

\* Line 180: tours of at most this many entries are returned as they are.
TwoOptSkips(n) == n <= 3

\* Line 175 and lines 179-184: nearestNeighborOrder returns its order and
\* twoOpt is entered with it.
TwoOptEnter ==
    /\ pc = "nn"
    /\ nnI >= Len(points)
    /\ nnOrder' = order
    /\ IF TwoOptSkips(Len(order))
       THEN pc' = "ret" /\ UNCHANGED improved
       ELSE pc' = "while" /\ improved' = TRUE
    /\ UNCHANGED <<points, order, visited, nnI, ti, tk, reversals, optCalls,
                   passes, passReversals, prior, hVars, uiVars, dlgVars, fcVars, llmVars>>

\* The loop of line 185 as an if: one pass and no more.
TwoOptWhileOnce ==
    /\ pc = "while"
    /\ IF improved /\ passes = 0
       THEN /\ improved' = FALSE
            /\ ti' = 1
            /\ tk' = 2
            /\ pc' = "for"
            /\ passes' = passes + 1
            /\ passReversals' = 0
       ELSE /\ pc' = "ret"
            /\ UNCHANGED <<improved, ti, tk, passes, passReversals>>
    /\ UNCHANGED <<points, order, visited, nnI, nnOrder, reversals, optCalls, prior,
                   hVars, uiVars, dlgVars, fcVars, llmVars>>

\* Lines 185-187: the test of the while loop; a pass starts at i = 1, k = 2.
\* Passes are followed up to MaxPasses of them.
TwoOptWhile ==
    /\ pc = "while"
    /\ IF improved
       THEN /\ passes < MaxPasses
            /\ improved' = FALSE
            /\ ti' = 1
            /\ tk' = 2
            /\ pc' = "for"
            /\ passes' = passes + 1
            /\ passReversals' = 0
       ELSE /\ pc' = "ret"
            /\ UNCHANGED <<improved, ti, tk, passes, passReversals>>
    /\ UNCHANGED <<points, order, visited, nnI, nnOrder, reversals, optCalls, prior,
                   hVars, uiVars, dlgVars, fcVars, llmVars>>

\* Lines 188-196: the body of the inner loop for the pair (ti, tk), and the
\* step to the next pair.
TwoOptPair ==
    /\ pc = "for"
    /\ LET n == Len(order)
           delta == Delta(points, order, ti, tk)
       IN /\ IF Improves(delta)
             THEN /\ order' = ReverseSegment(order, ti, tk)
                  /\ improved' = TRUE
                  /\ reversals' = reversals + 1
                  /\ passReversals' = passReversals + 1
             ELSE UNCHANGED <<order, improved, reversals, passReversals>>
          /\ IF tk + 1 < n - 1
             THEN tk' = tk + 1 /\ UNCHANGED <<ti, pc>>
             ELSE IF ti + 1 < n - 2
                  THEN ti' = ti + 1 /\ tk' = ti + 2 /\ UNCHANGED pc
                  ELSE pc' = "while" /\ UNCHANGED <<ti, tk>>
    /\ UNCHANGED <<points, visited, nnI, nnOrder, optCalls, passes, prior, hVars,
                   uiVars, dlgVars, fcVars, llmVars>>

\* Lists of at most n entries drawn from S.
SeqUpTo(S, n) == UNION {[1..m -> S] : m \in 0..n}

\* ---------------------------------------------------------- geocodeAddress
\* The result of a geocodeAddress call: not settled yet, a coordinate, null,
\* or a rejection with the message of what was thrown.
NoCoord == [lat |-> NaN, lng |-> NaN]
Pending == [st |-> "pending", coord |-> NoCoord, why |-> "none"]
Resolved(c) == [st |-> "coord", coord |-> c, why |-> "none"]
Null(why) == [st |-> "null", coord |-> NoCoord, why |-> why]
Rejected(why) == [st |-> "rejected", coord |-> NoCoord, why |-> why]

\* What the lookup of one address can come to: fetch rejects, the HTTP
\* status is an error, the body is no JSON, data.status is not 'OK',
\* data.results is empty, or results[0].geometry.location is a coordinate.
ServiceLocation == [lat |-> Fin(1), lng |-> Fin(1)]
Replies == {"fetchThrows", "httpError", "jsonThrows", "statusNotOK", "noResults", "ok"}
FailureReplies == Replies \ {"ok"}

\* Lines 138-144: geocodeAddress up to its first await.  address.match of a
\* value that is no string throws; a coordinate literal is parsed and no
\* lookup is sent; for any other string fetch is called.
StartGeocode(address) ==
    IF ~IsString(address) THEN Rejected("TypeError")
    ELSE LET m == CoordMatch(address.s)
         IN IF m # <<>>
            THEN Resolved([lat |-> parseFloat(m[1]), lng |-> parseFloat(m[2])])
            ELSE Pending

\* Lines 144-149: geocodeAddress from the answer of fetch on.
FinishGeocode(reply) ==
    CASE reply = "fetchThrows" -> Rejected("fetchThrows")
      [] reply = "httpError" -> Null("httpError")
      [] reply = "jsonThrows" -> Rejected("jsonThrows")
      [] reply = "statusNotOK" -> Null("statusNotOK")
      [] reply = "noResults" -> Null("noResults")
      [] OTHER -> Resolved(ServiceLocation)

\* ------------------------------------------------------------- the handler
\* Responses: none yet, the CORS preflight answer, an error, or a route.
NoResponse == [kind |-> "none", status |-> 0, error |-> "",
               optimizedRoute |-> <<>>, googleMapsUrl |-> <<>>]
PreflightResponse == [NoResponse EXCEPT !.kind = "preflight", !.status = 200]
ErrorResponse(status, msg) ==
    [NoResponse EXCEPT !.kind = "error", !.status = status, !.error = msg]
RouteResponse(route, url) ==
    [NoResponse EXCEPT !.kind = "route", !.status = 200,
                       !.optimizedRoute = route, !.googleMapsUrl = url]

TooFewAddressesMsg == "At least 2 addresses are required"
TooFewValidMsg == "Unable to geocode enough addresses to build a route"
NoKeyMsg == "GOOGLE_PLACES_API_KEY is not set in Supabase secrets"

\* Line 215: !addresses || !Array.isArray(addresses) || addresses.length < 2
InvalidAddresses(a) == a.t # "array" \/ Len(a.items) < 2

\* The starting address put in front without a look at addresses[0].
InputAddressesAlwaysPrepended(addresses, startingAddress) ==
    IF Truthy(startingAddress)
    THEN <<startingAddress>> \o addresses
    ELSE addresses

\* Lines 228-231.
InputAddresses(addresses, startingAddress) ==
    IF Truthy(startingAddress) /\ addresses[1] # startingAddress
    THEN <<startingAddress>> \o addresses
    ELSE addresses

\* Lines 237-240: the stops whose coordinate is not null, in index order.
RECURSIVE ValidStopsFrom(_, _, _)
ValidStopsFrom(inp, geo, i) ==
    IF i > Len(inp) THEN <<>>
    ELSE (IF geo[i].st = "coord"
          THEN <<[address |-> inp[i], coord |-> geo[i].coord]>>
          ELSE <<>>) \o ValidStopsFrom(inp, geo, i + 1)

\* The stops in the order their calls settle when the coordinate literals,
\* which need no lookup, are pushed before the looked-up addresses.
ValidStopsAsSettled(inp, geo) ==
    LET all == ValidStopsFrom(inp, geo, 1)
        literal(v) == CoordMatch(v.address.s) # <<>>
        lookedUp(v) == ~literal(v)
    IN SelectSeq(all, literal) \o SelectSeq(all, lookedUp)

ValidStops(inp, geo) == ValidStopsFrom(inp, geo, 1)

\* The test of line 242 with 1 in place of 2.
TooFewValidOne(v) == Len(v) < 1

\* Line 242.
TooFewValid(v) == Len(v) < 2

\* Line 258.
OrderedAddresses(ord, v) == [j \in 1..Len(ord) |-> At(v, ord[j]).address]

\* The handler from the await of line 234 on, with the calls in the states
\* geo: Promise.all rejects as soon as one call has rejected and the catch of
\* line 266 answers; it resolves once every call has, and lines 237-254 run.
FirstRejected(geo) == CHOOSE i \in 1..Len(geo) :
    /\ geo[i].st = "rejected"
    /\ \A j \in 1..(i - 1) : geo[j].st # "rejected"

AfterAwait(inp, geo, rejectedNow) ==
    IF rejectedNow # 0
    THEN /\ response' = ErrorResponse(500, geo[rejectedNow].why)
         /\ pc' = "done"
         /\ UNCHANGED <<valid, optVars>>
    ELSE IF \E i \in 1..Len(geo) : geo[i].st = "pending"
    THEN /\ pc' = "geocoding"
         /\ UNCHANGED <<valid, response, optVars>>
    ELSE LET v == ValidStops(inp, geo)
         IN /\ valid' = v
            /\ IF TooFewValid(v)
               THEN /\ response' = ErrorResponse(400, TooFewValidMsg)
                    /\ pc' = "done"
                    /\ UNCHANGED optVars
               ELSE /\ EnterNearestNeighbor([j \in 1..Len(v) |-> v[j].coord])
                    /\ pc' = "nn"
                    /\ UNCHANGED response

\* Lines 207-234: the handler from the request to the await of Promise.all.
HandleRequest ==
    /\ pc = "serve"
    /\ IF req.method = "OPTIONS"
       THEN /\ response' = PreflightResponse
            /\ pc' = "done"
            /\ UNCHANGED <<inputAddresses, geocoded, fetchIssued, valid, optVars>>
       ELSE IF ~req.json
       THEN /\ response' = ErrorResponse(500, "SyntaxError")
            /\ pc' = "done"
            /\ UNCHANGED <<inputAddresses, geocoded, fetchIssued, valid, optVars>>
       ELSE IF InvalidAddresses(req.addresses)
       THEN /\ response' = ErrorResponse(400, TooFewAddressesMsg)
            /\ pc' = "done"
            /\ UNCHANGED <<inputAddresses, geocoded, fetchIssued, valid, optVars>>
       ELSE IF ~apiKeySet
       THEN /\ response' = ErrorResponse(500, NoKeyMsg)
            /\ pc' = "done"
            /\ UNCHANGED <<inputAddresses, geocoded, fetchIssued, valid, optVars>>
       ELSE LET inp == InputAddresses(req.addresses.items, req.startingAddress)
                geo == [i \in 1..Len(inp) |-> StartGeocode(inp[i])]
            IN /\ inputAddresses' = inp
               /\ geocoded' = geo
               /\ fetchIssued' = {i \in 1..Len(inp) : geo[i].st = "pending"}
               /\ AfterAwait(inp, geo,
                      IF \E i \in 1..Len(geo) : geo[i].st = "rejected"
                      THEN FirstRejected(geo) ELSE 0)
    /\ UNCHANGED <<req, apiKeySet, outOfOrder, uiVars, dlgVars, fcVars, llmVars>>

\* The lookup of input address i is answered, and the handler goes on if
\* that settles Promise.all.
GeocodeReply(i, reply) ==
    /\ pc = "geocoding"
    /\ i \in 1..Len(geocoded)
    /\ geocoded[i].st = "pending"
    /\ LET geo == [geocoded EXCEPT ![i] = FinishGeocode(reply)]
       IN /\ geocoded' = geo
          /\ AfterAwait(inputAddresses, geo,
                 IF geo[i].st = "rejected" THEN i ELSE 0)
    /\ outOfOrder' = (outOfOrder \/ \E j \in 1..(i - 1) : geocoded[j].st = "pending")
    /\ UNCHANGED <<req, apiKeySet, inputAddresses, fetchIssued, uiVars, dlgVars, fcVars, llmVars>>

\* Lines 257-265: the tour mapped back to addresses, the URL, the response.
Respond ==
    /\ pc = "ret"
    /\ LET orderedAddresses == OrderedAddresses(order, valid)
       IN response' = RouteResponse(orderedAddresses,
                                    buildGoogleMapsUrl(orderedAddresses))
    /\ pc' = "done"
    /\ UNCHANGED <<optVars, req, apiKeySet, inputAddresses, geocoded, fetchIssued,
                   outOfOrder, valid, uiVars, dlgVars, fcVars, llmVars>>

\* ------------------------------------------------------------ the requests
FreeText == <<"a", " ", "b", "/", "c">>
CoordLiteral == <<"0", ",", " ", "1">>
HugeLiteral == <<BigDigits, ",", "0">>
AddressStrings == {FreeText, CoordLiteral, HugeLiteral}

\* Entries of the addresses array: strings and a value that is no string.
Entries == {Str(a) : a \in AddressStrings} \cup {NumberValue}

AddressesValues ==
    {[t |-> "array", items |-> items] : items \in SeqUpTo(Entries, MaxAddrs)}
        \cup {[t |-> "undefined", items |-> <<>>], [t |-> "string", items |-> <<>>]}

\* startingAddress: absent, the empty string, or an address.
StartValues == {Undefined, Str(<<>>)} \cup {Str(a) : a \in AddressStrings}

Requests ==
    {[method |-> "POST", json |-> TRUE, addresses |-> a, startingAddress |-> st] :
        a \in AddressesValues, st \in StartValues}
    \cup {[method |-> "OPTIONS", json |-> TRUE,
           addresses |-> [t |-> "undefined", items |-> <<>>], startingAddress |-> Undefined],
          [method |-> "POST", json |-> FALSE,
           addresses |-> [t |-> "undefined", items |-> <<>>], startingAddress |-> Undefined]}

\* ---------------------------------------------------- firecrawl-scrape-batch
\* supabase/functions/firecrawl-scrape-batch/index.ts.  Line 56.
batchSize == 3

\* The state of the scrape of one URL: not called yet, app.scrapeUrl called
\* and not settled, or settled with its outcome.
NotStarted == [st |-> "notStarted", outcome |-> "none"]
InFlight == [st |-> "inFlight", outcome |-> "none"]
Settled(outcome) == [st |-> "settled", outcome |-> outcome]

\* What app.scrapeUrl can come to: a result with success true, a result with
\* success false, a thrown error, and the error thrown when the 30 s timeout
\* of line 69 runs out.
ScrapeOutcomes == {"success", "errorResult", "throws", "timeout"}

\* Lines 73-94: the entry the callback of batch.map returns for url.
ScrapeEntry(url, outcome) ==
    CASE outcome = "success" -> [url |-> url, success |-> TRUE, detail |-> "data"]
      [] outcome = "errorResult" -> [url |-> url, success |-> FALSE, detail |-> "scrape error"]
      [] outcome = "timeout" -> [url |-> url, success |-> FALSE, detail |-> "timed out"]
      [] OTHER -> [url |-> url, success |-> FALSE, detail |-> "thrown"]

\* Responses of firecrawl-scrape-batch.
NoScrapeResponse ==
    [kind |-> "none", status |-> 0, success |-> FALSE, error |-> "", results |-> <<>>,
     totalProcessed |-> 0, successCount |-> 0]
ScrapePreflightResponse == [NoScrapeResponse EXCEPT !.kind = "preflight", !.status = 200]
ScrapeErrorResponse(status, msg) ==
    [NoScrapeResponse EXCEPT !.kind = "error", !.status = status, !.error = msg]

\* Lines 109-122.
ScrapeResultsResponse(results) ==
    [NoScrapeResponse EXCEPT
        !.kind = "results", !.status = 200, !.success = TRUE, !.results = results,
        !.totalProcessed = Len(results),
        !.successCount = Len(SelectSeq(results, LAMBDA r : r.success))]

NoUrlsMsg == "No URLs provided"
NoFirecrawlKeyMsg == "API key not configured"

\* Line 24: !urls || !Array.isArray(urls) || urls.length === 0
InvalidUrls(u) == u.t # "array" \/ Len(u.items) = 0

\* No request has reached firecrawl-scrape-batch.
ScrapeIdle ==
    /\ scrapeReq = [method |-> "none", json |-> TRUE,
                    urls |-> [t |-> "undefined", items |-> <<>>]]
    /\ firecrawlKeySet = TRUE
    /\ batchStart = 0
    /\ scrapes = <<>>
    /\ scrapeCalls = <<>>
    /\ allResults = <<>>
    /\ scrapeResponse = NoScrapeResponse

\* ------------------------------------------- the LLM-based optimize-route
\* Responses of the handler of lines 11-112 of optimize-route/index.ts.
NoLLMResponse == [kind |-> "none", status |-> 0, error |-> "", optimizedRoute |-> <<>>]

\* No request has reached the LLM-based handler.
LLMIdle ==
    /\ llmReq = [method |-> "none", json |-> TRUE,
                 addresses |-> [t |-> "undefined", items |-> <<>>]]
    /\ llmResponse = NoLLMResponse

\* ---------------------------------------------------- RouteOptimizationDialog
\* Lines 298-301 of RouteOptimizer.tsx: the state of the dialog as created.
DialogIdle ==
    /\ dialogStartingAddress = <<>>
    /\ isOptimizing = FALSE
    /\ optimizedRoute = <<>>
    /\ googleMapsUrl = <<>>
    /\ invokes = <<>>

\* Lines 53-54 of EstateSalesScraper.tsx: nothing selected, the dialog closed.
UIIdle ==
    /\ selectedSales = <<>>
    /\ showRouteDialog = FALSE
    /\ toast = "none"
    /\ lastHandler = "none"

HandlerIdle ==
    /\ inputAddresses = <<>>
    /\ geocoded = <<>>
    /\ fetchIssued = {}
    /\ outOfOrder = FALSE
    /\ valid = <<>>
    /\ response = NoResponse

Init ==
    /\ pc = "serve"
    /\ req \in Requests
    /\ apiKeySet \in BOOLEAN
    /\ HandlerIdle
    /\ points = <<>>
    /\ order = <<>>
    /\ visited = <<>>
    /\ nnI = 0
    /\ improved = FALSE
    /\ ti = 0
    /\ tk = 0
    /\ nnOrder = <<>>
    /\ reversals = 0
    /\ optCalls = 0
    /\ passes = 0
    /\ passReversals = 0
    /\ prior = NoPrior
    /\ UIIdle
    /\ DialogIdle
    /\ ScrapeIdle
    /\ LLMIdle

Next ==
    \/ HandleRequest
    \/ \E i \in 1..(MaxAddrs + 1), reply \in Replies : GeocodeReply(i, reply)
    \/ NNStep
    \/ TwoOptEnter
    \/ TwoOptWhile
    \/ TwoOptPair
    \/ Respond

Spec == Init /\ [][Next]_vars

\* ------------------------------------------------- the optimizer on its own
InitOpt ==
    /\ pc = "nn"
    /\ points \in SeqUpTo(CoordPool, MaxPoints)
    /\ order = NNOrderInit
    /\ visited = NNVisitedInit(points)
    /\ nnI = 1
    /\ improved = FALSE
    /\ ti = 0
    /\ tk = 0
    /\ nnOrder = <<>>
    /\ reversals = 0
    /\ optCalls = 1
    /\ passes = 0
    /\ passReversals = 0
    /\ prior = NoPrior
    /\ UIIdle
    /\ DialogIdle
    /\ ScrapeIdle
    /\ LLMIdle
    /\ req = [method |-> "none", json |-> TRUE,
              addresses |-> [t |-> "undefined", items |-> <<>>],
              startingAddress |-> Undefined]
    /\ apiKeySet = TRUE
    /\ HandlerIdle

NextOpt == NNStep \/ TwoOptEnter \/ TwoOptWhile \/ TwoOptPair

SpecOpt == InitOpt /\ [][NextOpt]_vars

\* ---------------------------------------------------------- twoOpt on its own
\* The corners of a square of one grid step.
UnitSquare == {[lat |-> Fin(x), lng |-> Fin(y)] : x \in {0, 1}, y \in {0, 1}}

\* The tour 0, 1, ..., n-1.
InputOrder(n) == [j \in 1..n |-> j - 1]

\* twoOpt(points, order) is about to be called with any points on the square
\* or the non-finite coordinate, and the tour that visits them as listed.
InitTwoOpt ==
    /\ pc = "nn"
    /\ points \in SeqUpTo(UnitSquare \cup {NonFiniteCoord}, MaxTour)
    /\ order = InputOrder(Len(points))
    /\ visited = [j \in 1..Len(points) |-> TRUE]
    /\ nnI = Len(points)
    /\ improved = FALSE
    /\ ti = 0
    /\ tk = 0
    /\ nnOrder = <<>>
    /\ reversals = 0
    /\ optCalls = 1
    /\ passes = 0
    /\ passReversals = 0
    /\ prior = NoPrior
    /\ UIIdle
    /\ DialogIdle
    /\ ScrapeIdle
    /\ LLMIdle
    /\ req = [method |-> "none", json |-> TRUE,
              addresses |-> [t |-> "undefined", items |-> <<>>],
              startingAddress |-> Undefined]
    /\ apiKeySet = TRUE
    /\ HandlerIdle

\* Lines 179-184 once more: twoOpt is called again, with the same points and
\* the tour its first call returned.
TwoOptAgain ==
    /\ pc = "ret"
    /\ ~prior.called
    /\ prior' = [called |-> TRUE, tour |-> order, reversals |-> reversals]
    /\ reversals' = 0
    /\ passes' = 0
    /\ passReversals' = 0
    /\ IF TwoOptSkips(Len(order))
       THEN pc' = "ret" /\ UNCHANGED improved
       ELSE pc' = "while" /\ improved' = TRUE
    /\ UNCHANGED <<points, order, visited, nnI, ti, tk, nnOrder, optCalls, hVars,
                   uiVars, dlgVars, fcVars, llmVars>>

\* One call of twoOpt.
NextTwoOptCall == TwoOptEnter \/ TwoOptWhile \/ TwoOptPair

\* twoOpt, and twoOpt once more on what it returned.
NextTwoOpt == NextTwoOptCall \/ TwoOptAgain

SpecTwoOpt == InitTwoOpt /\ [][NextTwoOpt]_vars

\* One call of twoOpt with at most MaxPoints points, all finite.  twoOpt is
\* synchronous code: once called it runs on, statement after statement, until
\* it returns.
InitTwoOptFinite ==
    /\ InitTwoOpt
    /\ Len(points) <= MaxPoints
    /\ \A j \in 1..Len(points) : CoordFinite(points[j])

SpecTwoOptFair ==
    InitTwoOptFinite /\ [][NextTwoOptCall]_vars /\ WF_vars(NextTwoOptCall)

\* --------------------------------------------------------- EstateSalesScraper
\* The estate sales on the page, each known by its identifier (uniqueId, or
\* title-address-date).
Sales == {"s1", "s2", "s3"}

\* Line 89: the title of the toast of handlePlanRoute.
SelectionRequiredToast == "Selection Required"

\* Lines 74-84: handleSaleSelection(sale, selected).  While the route dialog,
\* a modal one, is open the page behind it takes no input.
handleSaleSelection(sale, selected) ==
    /\ pc = "ui"
    /\ ~showRouteDialog
    /\ IF selected
       THEN /\ Len(selectedSales) < MaxSelected
            /\ selectedSales' = Append(selectedSales, sale)
       ELSE selectedSales' = SelectSeq(selectedSales, LAMBDA s : s # sale)
    /\ toast' = "none"
    /\ lastHandler' = "handleSaleSelection"
    /\ UNCHANGED <<pc, showRouteDialog, optVars, hVars, dlgVars, fcVars, llmVars>>

\* The test of line 87 with 1 in place of 2.
TooFewSelectedOne(n) == n < 1

\* Line 87.
TooFewSelected(n) == n < 2

\* Lines 86-96: handlePlanRoute, the click handler of the Plan Route button,
\* which is rendered while something is selected (line 224).
handlePlanRoute ==
    /\ pc = "ui"
    /\ ~showRouteDialog
    /\ Len(selectedSales) > 0
    /\ IF TooFewSelected(Len(selectedSales))
       THEN /\ toast' = SelectionRequiredToast
            /\ UNCHANGED showRouteDialog
       ELSE /\ showRouteDialog' = TRUE
            /\ toast' = "none"
    /\ lastHandler' = "handlePlanRoute"
    /\ UNCHANGED <<pc, selectedSales, optVars, hVars, dlgVars, fcVars, llmVars>>

\* Line 389 with lines 410-419 of RouteOptimizer.tsx: the dialog is closed;
\* handleClose runs handleReset and calls onOpenChange(false), which is
\* setShowRouteDialog.
handleClose ==
    /\ pc = "ui"
    /\ showRouteDialog
    /\ showRouteDialog' = FALSE
    /\ optimizedRoute' = <<>>
    /\ googleMapsUrl' = <<>>
    /\ dialogStartingAddress' = <<>>
    /\ toast' = "none"
    /\ lastHandler' = "handleClose"
    /\ UNCHANGED <<pc, selectedSales, isOptimizing, invokes, optVars, hVars, fcVars,
                   llmVars>>

InitUI ==
    /\ pc = "ui"
    /\ UIIdle
    /\ DialogIdle
    /\ ScrapeIdle
    /\ LLMIdle
    /\ points = <<>>
    /\ order = <<>>
    /\ visited = <<>>
    /\ nnI = 0
    /\ improved = FALSE
    /\ ti = 0
    /\ tk = 0
    /\ nnOrder = <<>>
    /\ reversals = 0
    /\ optCalls = 0
    /\ passes = 0
    /\ passReversals = 0
    /\ prior = NoPrior
    /\ req = [method |-> "none", json |-> TRUE,
              addresses |-> [t |-> "undefined", items |-> <<>>],
              startingAddress |-> Undefined]
    /\ apiKeySet = TRUE
    /\ HandlerIdle

NextUI ==
    \/ \E sale \in Sales, selected \in BOOLEAN : handleSaleSelection(sale, selected)
    \/ handlePlanRoute
    \/ handleClose

SpecUI == InitUI /\ [][NextUI]_vars

\* ------------------------------------- RouteOptimizationDialog: the handlers
\* What can stand in the starting address input: nothing, blanks, an address.
StartInputs == {<<>>, <<" ">>, <<" ", "a", " ">>}

\* Lines 360-365: the address of a sale, the sale's identifier standing for
\* its text.
SaleAddress(sale) == <<sale>>

StartRequiredToast == "Starting Address Required"
OptimizationFailedToast == "Route Optimization Failed"
RouteOptimizedToast == "Route Optimized!"

\* Line 445: the input's onChange; the input is disabled while isOptimizing.
setStartingAddress(v) ==
    /\ pc = "ui"
    /\ showRouteDialog
    /\ ~isOptimizing
    /\ dialogStartingAddress' = v
    /\ toast' = "none"
    /\ lastHandler' = "setStartingAddress"
    /\ UNCHANGED <<pc, selectedSales, showRouteDialog, isOptimizing, optimizedRoute,
                   googleMapsUrl, invokes, optVars, hVars, fcVars, llmVars>>

\* Lines 366-378: the body of the optimize-route request.
InvokeBody(start, sales) ==
    [addresses |-> <<start>> \o [j \in 1..Len(sales) |-> SaleAddress(sales[j])],
     startingAddress |-> start]

\* Lines 345-378: handleOptimizeRoute up to its await.  The button that calls
\* it is disabled while isOptimizing (line 455); its own test of line 346 is
\* followed for a blank address as well.
handleOptimizeRoute ==
    /\ pc = "ui"
    /\ showRouteDialog
    /\ ~isOptimizing
    /\ IF Trim(dialogStartingAddress) = <<>>
       THEN /\ toast' = StartRequiredToast
            /\ UNCHANGED <<isOptimizing, invokes>>
       ELSE /\ isOptimizing' = TRUE
            /\ invokes' = Append(invokes, InvokeBody(dialogStartingAddress, selectedSales))
            /\ toast' = "none"
    /\ lastHandler' = "handleOptimizeRoute"
    /\ UNCHANGED <<pc, selectedSales, showRouteDialog, dialogStartingAddress,
                   optimizedRoute, googleMapsUrl, optVars, hVars, fcVars, llmVars>>

\* What supabase.functions.invoke can come to: data with a route and a maps
\* URL, data with a route and no URL, data without a route, an error result,
\* or a thrown exception.
InvokeOutcomes == {"route", "routeNoUrl", "noRoute", "error", "throws"}

\* The finally of line 405 missed when the call throws.
IsOptimizingAfterUncaught(outcome) == outcome = "throws"

\* Lines 405-407: finally, setIsOptimizing(false).
IsOptimizingAfter(outcome) == FALSE

\* Lines 373-407: handleOptimizeRoute from the answer of the request on.
InvokeReply(outcome) ==
    /\ pc = "ui"
    /\ invokes # <<>>
    /\ invokes' = Tail(invokes)
    /\ IF outcome \in {"route", "routeNoUrl"}
       THEN /\ optimizedRoute' = Head(invokes).addresses
            /\ googleMapsUrl' = (IF outcome = "route" THEN <<MapsDirPrefix>> ELSE <<>>)
            /\ toast' = RouteOptimizedToast
       ELSE /\ toast' = (IF outcome = "noRoute" THEN "none" ELSE OptimizationFailedToast)
            /\ UNCHANGED <<optimizedRoute, googleMapsUrl>>
    /\ isOptimizing' = IsOptimizingAfter(outcome)
    /\ lastHandler' = "handleOptimizeRoute"
    /\ UNCHANGED <<pc, selectedSales, showRouteDialog, dialogStartingAddress,
                   optVars, hVars, fcVars, llmVars>>

\* Lines 410-414: handleReset, the click handler of Try Different Route,
\* which is rendered while a route is shown (line 473).
handleReset ==
    /\ pc = "ui"
    /\ showRouteDialog
    /\ optimizedRoute # <<>>
    /\ optimizedRoute' = <<>>
    /\ googleMapsUrl' = <<>>
    /\ dialogStartingAddress' = <<>>
    /\ toast' = "none"
    /\ lastHandler' = "handleReset"
    /\ UNCHANGED <<pc, selectedSales, showRouteDialog, isOptimizing, invokes,
                   optVars, hVars, fcVars, llmVars>>

NextDialog ==
    \/ NextUI
    \/ \E v \in StartInputs : setStartingAddress(v)
    \/ handleOptimizeRoute
    \/ \E outcome \in InvokeOutcomes : InvokeReply(outcome)
    \/ handleReset

\* The page with its dialog.  A request sent is answered in the end, with a
\* result or with an exception.
SpecDialog ==
    InitUI /\ [][NextDialog]_vars /\ WF_vars(\E outcome \in InvokeOutcomes : InvokeReply(outcome))

\* ------------------------------------- firecrawl-scrape-batch: the handler
\* The optimizer and the heuristic handler at rest.
OptimizerIdle ==
    /\ points = <<>>
    /\ order = <<>>
    /\ visited = <<>>
    /\ nnI = 0
    /\ improved = FALSE
    /\ ti = 0
    /\ tk = 0
    /\ nnOrder = <<>>
    /\ reversals = 0
    /\ optCalls = 0
    /\ passes = 0
    /\ passReversals = 0
    /\ prior = NoPrior

RouteHandlerIdle ==
    /\ req = [method |-> "none", json |-> TRUE,
              addresses |-> [t |-> "undefined", items |-> <<>>],
              startingAddress |-> Undefined]
    /\ apiKeySet = TRUE
    /\ HandlerIdle

ScrapeUrls == {"u1", "u2"}

UrlsValues ==
    {[t |-> "array", items |-> items] : items \in SeqUpTo(ScrapeUrls, MaxUrls)}
        \cup {[t |-> "undefined", items |-> <<>>], [t |-> "string", items |-> <<>>]}

ScrapeRequests ==
    {[method |-> "POST", json |-> TRUE, urls |-> u] : u \in UrlsValues}
    \cup {[method |-> "OPTIONS", json |-> TRUE, urls |-> [t |-> "undefined", items |-> <<>>]],
          [method |-> "POST", json |-> FALSE, urls |-> [t |-> "undefined", items |-> <<>>]]}

\* The slice taken to the end of the array: every URL in one batch.
BatchEndAll(i, n) == n

\* Line 60: urls.slice(i, i + batchSize) ends before position i + batchSize
\* or at the end of the n URLs; its URLs are those at i+1..BatchEnd, from 1.
BatchEnd(i, n) == IF i + batchSize < n THEN i + batchSize ELSE n

Batch(i, n) == (i + 1)..BatchEnd(i, n)

\* Lines 63-71: batch.map calls its callback for each URL of the batch, and
\* each callback runs to its await, having called app.scrapeUrl.
StartedScrapes(scr, i) ==
    [p \in 1..Len(scr) |-> IF p \in Batch(i, Len(scr)) THEN InFlight ELSE scr[p]]

CountedCalls(calls, i) ==
    [p \in 1..Len(calls) |->
        IF p \in Batch(i, Len(calls)) THEN calls[p] + 1 ELSE calls[p]]

\* The entries of the scrapes that succeeded only.
BatchResultsFulfilledOnly(urls, scr, i) ==
    SelectSeq([q \in 1..(BatchEnd(i, Len(urls)) - i) |->
                  ScrapeEntry(urls[i + q], scr[i + q].outcome)],
              LAMBDA r : r.success)

\* Line 98: what Promise.all resolves to, the entries in the order of the batch.
BatchResults(urls, scr, i) ==
    [q \in 1..(BatchEnd(i, Len(urls)) - i) |->
        ScrapeEntry(urls[i + q], scr[i + q].outcome)]

\* Lines 13-71: the handler from the request to the await of the first batch.
ScrapeHandleRequest ==
    /\ pc = "scrape"
    /\ IF scrapeReq.method = "OPTIONS"
       THEN /\ scrapeResponse' = ScrapePreflightResponse
            /\ pc' = "scrapeDone"
            /\ UNCHANGED <<batchStart, scrapes, scrapeCalls>>
       ELSE IF ~scrapeReq.json
       THEN /\ scrapeResponse' = ScrapeErrorResponse(500, "SyntaxError")
            /\ pc' = "scrapeDone"
            /\ UNCHANGED <<batchStart, scrapes, scrapeCalls>>
       ELSE IF InvalidUrls(scrapeReq.urls)
       THEN /\ scrapeResponse' = ScrapeErrorResponse(400, NoUrlsMsg)
            /\ pc' = "scrapeDone"
            /\ UNCHANGED <<batchStart, scrapes, scrapeCalls>>
       ELSE IF ~firecrawlKeySet
       THEN /\ scrapeResponse' = ScrapeErrorResponse(500, NoFirecrawlKeyMsg)
            /\ pc' = "scrapeDone"
            /\ UNCHANGED <<batchStart, scrapes, scrapeCalls>>
       ELSE LET n == Len(scrapeReq.urls.items)
            IN /\ batchStart' = 0
               /\ scrapes' = StartedScrapes([p \in 1..n |-> NotStarted], 0)
               /\ scrapeCalls' = CountedCalls([p \in 1..n |-> 0], 0)
               /\ pc' = "scraping"
               /\ UNCHANGED scrapeResponse
    /\ UNCHANGED <<scrapeReq, firecrawlKeySet, allResults, optVars, hVars, uiVars,
                   dlgVars, llmVars>>

\* Lines 73-105 and 107-122: the scrape of the URL at position p (from 1)
\* settles and its callback returns its entry.  When that was the last of the
\* batch, Promise.all resolves and the entries of the batch are pushed; the
\* handler then waits out the delay of line 103 or, after the last batch,
\* answers.
ScrapeSettles(p, outcome) ==
    /\ pc = "scraping"
    /\ p \in 1..Len(scrapes)
    /\ scrapes[p].st = "inFlight"
    /\ LET scr == [scrapes EXCEPT ![p] = Settled(outcome)]
           n == Len(scr)
       IN /\ scrapes' = scr
          /\ IF \E q \in Batch(batchStart, n) : scr[q].st = "inFlight"
             THEN UNCHANGED <<pc, allResults, scrapeResponse>>
             ELSE LET results ==
                          allResults \o BatchResults(scrapeReq.urls.items, scr, batchStart)
                  IN /\ allResults' = results
                     /\ IF batchStart + batchSize < n
                        THEN pc' = "scrapeDelay" /\ UNCHANGED scrapeResponse
                        ELSE /\ scrapeResponse' = ScrapeResultsResponse(results)
                             /\ pc' = "scrapeDone"
    /\ UNCHANGED <<scrapeReq, firecrawlKeySet, batchStart, scrapeCalls, optVars, hVars,
                   uiVars, dlgVars, llmVars>>

\* Lines 103 and 59-71: the delay between two batches is over, i += batchSize,
\* and the scrapes of the next batch are started.
ScrapeDelayElapsed ==
    /\ pc = "scrapeDelay"
    /\ batchStart' = batchStart + batchSize
    /\ scrapes' = StartedScrapes(scrapes, batchStart + batchSize)
    /\ scrapeCalls' = CountedCalls(scrapeCalls, batchStart + batchSize)
    /\ pc' = "scraping"
    /\ UNCHANGED <<scrapeReq, firecrawlKeySet, allResults, scrapeResponse, optVars,
                   hVars, uiVars, dlgVars, llmVars>>

InitScrape ==
    /\ pc = "scrape"
    /\ scrapeReq \in ScrapeRequests
    /\ firecrawlKeySet \in BOOLEAN
    /\ batchStart = 0
    /\ scrapes = <<>>
    /\ scrapeCalls = <<>>
    /\ allResults = <<>>
    /\ scrapeResponse = NoScrapeResponse
    /\ OptimizerIdle
    /\ RouteHandlerIdle
    /\ UIIdle
    /\ DialogIdle
    /\ LLMIdle

NextScrape ==
    \/ ScrapeHandleRequest
    \/ \E p \in 1..MaxUrls, outcome \in ScrapeOutcomes : ScrapeSettles(p, outcome)
    \/ ScrapeDelayElapsed

SpecScrape == InitScrape /\ [][NextScrape]_vars

\* ------------------------------- the LLM-based optimize-route: the handler
\* Lines 11-112 of optimize-route/index.ts.
LLMRouteResponse(route) ==
    [NoLLMResponse EXCEPT !.kind = "route", !.status = 200, !.optimizedRoute = route]
LLMErrorResponse(status, msg) ==
    [NoLLMResponse EXCEPT !.kind = "error", !.status = status, !.error = msg]
LLMPreflightResponse == [NoLLMResponse EXCEPT !.kind = "preflight", !.status = 200]

\* The tokens of a JSON text: a punctuation mark, a string, a number, or
\* something that is no JSON token.
Punct(c) == [t |-> "punct", s |-> <<c>>]
BadToken == [t |-> "bad", s |-> <<>>]

\* Position of the first character c of s, or 0.
IndexOf(s, c) ==
    IF \E p \in 1..Len(s) : s[p] = c
    THEN CHOOSE p \in 1..Len(s) : s[p] = c /\ \A q \in 1..(p - 1) : s[q] # c
    ELSE 0

\* Length of the run of digits s begins with.
RECURSIVE DigitRun(_)
DigitRun(s) == IF s # <<>> /\ IsDigit(Head(s)) THEN 1 + DigitRun(Tail(s)) ELSE 0

\* JSON.parse, first half: the text cut into tokens, white space dropped.  A
\* string runs from a quote to the next quote (the strings of the model hold
\* no quote and no backslash).
RECURSIVE Lex(_)
Lex(s) ==
    IF s = <<>> THEN <<>>
    ELSE IF Head(s) = " " THEN Lex(Tail(s))
    ELSE IF Head(s) \in {"[", "]", ","} THEN <<Punct(Head(s))>> \o Lex(Tail(s))
    ELSE IF Head(s) = "\""
         THEN LET close == IndexOf(Tail(s), "\"")
              IN IF close = 0 THEN <<BadToken>>
                 ELSE <<Str(SubSeq(s, 2, close))>> \o Lex(SubSeq(s, close + 2, Len(s)))
    ELSE IF IsDigit(Head(s))
         THEN <<NumberValue>> \o Lex(SubSeq(s, DigitRun(s) + 1, Len(s)))
    ELSE <<BadToken>>

\* JSON.parse, second half: a lone string or number, or [ item, item, ... ]
\* with strings and numbers as items; anything else throws a SyntaxError.
SyntaxError == [t |-> "SyntaxError", items |-> <<>>]

IsScalar(tok) == tok.t \in {"string", "number"}

JSONParse(s) ==
    LET toks == Lex(s)
        n == Len(toks)
        inner == SubSeq(toks, 2, n - 1)
    IN IF n = 1 /\ IsScalar(toks[1]) THEN [t |-> toks[1].t, items |-> <<>>]
       ELSE IF /\ n >= 2
               /\ toks[1] = Punct("[")
               /\ toks[n] = Punct("]")
               /\ (inner = <<>> \/ Len(inner) % 2 = 1)
               /\ \A p \in 1..Len(inner) :
                     IF p % 2 = 1 THEN IsScalar(inner[p]) ELSE inner[p] = Punct(",")
            THEN [t |-> "array",
                  items |-> [j \in 1..((Len(inner) + 1) \div 2) |-> inner[2 * j - 1]]]
       ELSE SyntaxError

\* The JSON text of an array of strings and numbers, the format the prompt
\* asks for (line 46).
JSONItem(v) == IF IsString(v) THEN <<"\"">> \o v.s \o <<"\"">> ELSE <<"7">>

RECURSIVE JSONItems(_)
JSONItems(items) ==
    IF items = <<>> THEN <<>>
    ELSE IF Len(items) = 1 THEN JSONItem(items[1])
    ELSE JSONItem(items[1]) \o <<",">> \o JSONItems(Tail(items))

JSONArrayText(items) == <<"[">> \o JSONItems(items) \o <<"]">>

\* The addresses of a request, and what the model may name in its answer:
\* those, an address nobody asked for, and a number.
LLMAddresses == {Str(FreeText), Str(CoordLiteral)}
ForeignAddress == Str(<<"d">>)
AnswerItems == LLMAddresses \cup {ForeignAddress, NumberValue}

\* message.content of the completion: an array of up to MaxAddrs + 1 items as
\* JSON text, bare or padded with blanks, the same inside a Markdown fence,
\* a JSON string, and a sentence.
\* The Markdown code fence, three backquotes, kept as one element.
Fence == "fence"
Fenced(s) == <<Fence>> \o s \o <<Fence>>
LLMContents ==
    {JSONArrayText(items) : items \in SeqUpTo(AnswerItems, MaxAddrs + 1)}
    \cup {<<" ">> \o JSONArrayText(items) \o <<" ">> : items \in SeqUpTo(LLMAddresses, 2)}
    \cup {Fenced(JSONArrayText(items)) : items \in SeqUpTo(LLMAddresses, 2)}
    \cup {JSONItem(Str(FreeText)), <<"a", " ", "b">>, <<"[", "\"", "a">>}

LLMAddressesValues ==
    {[t |-> "array", items |-> items] : items \in SeqUpTo(LLMAddresses, MaxAddrs)}
        \cup {[t |-> "undefined", items |-> <<>>], [t |-> "string", items |-> <<>>]}

LLMRequests ==
    {[method |-> "POST", json |-> TRUE, addresses |-> a] : a \in LLMAddressesValues}
    \cup {[method |-> "OPTIONS", json |-> TRUE,
           addresses |-> [t |-> "undefined", items |-> <<>>]],
          [method |-> "POST", json |-> FALSE,
           addresses |-> [t |-> "undefined", items |-> <<>>]]}

\* What the call of the completions API can come to: fetch rejects, the
\* status is an error, the body is no JSON, the body has no
\* choices[0].message.content, or it has one.
LLMReplies == {"fetchThrows", "httpError", "jsonThrows", "noContent", "content"}

\* Lines 73-91: the content trimmed and parsed, with the addresses in their
\* place when it does not parse, is no array, or has another length.
ParsedRoute(content, addresses) ==
    LET parsed == JSONParse(Trim(content))
    IN IF parsed.t # "array" \/ Len(parsed.items) # Len(addresses)
       THEN addresses
       ELSE parsed.items

\* Lines 13-66: the handler from the request to the await of fetch.
LLMHandleRequest ==
    /\ pc = "llm"
    /\ IF llmReq.method = "OPTIONS"
       THEN llmResponse' = LLMPreflightResponse /\ pc' = "llmDone"
       ELSE IF ~llmReq.json
       THEN llmResponse' = LLMErrorResponse(500, "SyntaxError") /\ pc' = "llmDone"
       ELSE IF InvalidAddresses(llmReq.addresses)
       THEN llmResponse' = LLMErrorResponse(400, TooFewAddressesMsg) /\ pc' = "llmDone"
       ELSE pc' = "llmFetch" /\ UNCHANGED llmResponse
    /\ UNCHANGED <<llmReq, optVars, hVars, uiVars, dlgVars, fcVars>>

\* Lines 68-111: the handler from the answer of fetch on.
LLMReply(reply, content) ==
    /\ pc = "llmFetch"
    /\ llmResponse' =
          CASE reply = "fetchThrows" -> LLMErrorResponse(500, "fetchThrows")
            [] reply = "httpError" -> LLMErrorResponse(500, "OpenAI API error")
            [] reply = "jsonThrows" -> LLMErrorResponse(500, "jsonThrows")
            [] reply = "noContent" -> LLMErrorResponse(500, "TypeError")
            [] OTHER -> LLMRouteResponse(ParsedRoute(content, llmReq.addresses.items))
    /\ pc' = "llmDone"
    /\ UNCHANGED <<llmReq, optVars, hVars, uiVars, dlgVars, fcVars>>

InitLLM ==
    /\ pc = "llm"
    /\ llmReq \in LLMRequests
    /\ llmResponse = NoLLMResponse
    /\ OptimizerIdle
    /\ RouteHandlerIdle
    /\ UIIdle
    /\ DialogIdle
    /\ ScrapeIdle

NextLLM ==
    \/ LLMHandleRequest
    \/ \E reply \in LLMReplies, content \in LLMContents : LLMReply(reply, content)

SpecLLM == InitLLM /\ [][NextLLM]_vars

\* ---------------------------------------------------------------- measures
RECURSIVE TourLengthFrom(_, _, _)
TourLengthFrom(pts, ord, p) ==
    IF p + 1 >= Len(ord) THEN Fin(0)
    ELSE FAdd(distance(pts, ord, p, p + 1), TourLengthFrom(pts, ord, p + 1))

\* Sum of the distances between consecutive tour positions.
TourLength(pts, ord) == TourLengthFrom(pts, ord, 0)

IsPermutation(ord, n) ==
    /\ Len(ord) = n
    /\ \A x \in 0..(n - 1) : Cardinality({p \in 1..Len(ord) : ord[p] = x}) = 1

\* Whether x <= y, both being numbers.
FLeq(x, y) == IsFinite(x) /\ IsFinite(y) /\ x.v <= y.v

\* s cut at every sep.
RECURSIVE SplitFrom(_, _, _)
SplitFrom(s, sep, cur) ==
    IF s = <<>> THEN <<cur>>
    ELSE IF Head(s) = sep THEN <<cur>> \o SplitFrom(Tail(s), sep, <<>>)
    ELSE SplitFrom(Tail(s), sep, Append(cur, Head(s)))

Split(s, sep) == SplitFrom(s, sep, <<>>)

\* The character a percent escape stands for.
Unescape(h, l) ==
    CASE h = "2" /\ l = "0" -> " "
      [] h = "2" /\ l = "F" -> "/"
      [] h = "2" /\ l = "C" -> ","
      [] h = "2" /\ l = "5" -> "%"
      [] OTHER -> "?"

RECURSIVE PercentDecode(_)
PercentDecode(s) ==
    IF s = <<>> THEN <<>>
    ELSE IF Head(s) = "%" /\ Len(s) >= 3
         THEN <<Unescape(s[2], s[3])>> \o PercentDecode(SubSeq(s, 4, Len(s)))
         ELSE <<Head(s)>> \o PercentDecode(Tail(s))

\* Number of entries of the sequence s equal to x.
Count(s, x) == Cardinality({p \in 1..Len(s) : s[p] = x})

\* The input positions whose geocodeAddress call gave a coordinate.
ResolvedAt == {i \in 1..Len(geocoded) : geocoded[i].st = "coord"}
ResolvedCount == Cardinality(ResolvedAt)
\* The j-th of them, counted from 1 in input order.
ResolvedIndex(j) == CHOOSE i \in ResolvedAt : Cardinality({r \in ResolvedAt : r <= i}) = j

\* ================================================================== claims

\* C1: when the optimizer returns (nearestNeighborOrder, then twoOpt), the
\* tour is a permutation of 0..n-1 for the n points it was given: it has n
\* entries and every index occurs exactly once.
C1_PermutationOnReturn ==
    pc = "ret" => IsPermutation(order, Len(points))

\* C2: at every point of the computation, after nearestNeighborOrder has
\* started and after every reversal of twoOpt, the tour begins with index 0.
C2_FixedStart ==
    pc \in {"nn", "while", "for", "ret"} => (order # <<>> /\ order[1] = 0)

C2_Witness ==
    /\ pc = "ret"
    /\ reversals > 0
    /\ order # nnOrder
    /\ order[1] = 0

\* C3: when a starting address is supplied and a route is returned, the
\* first entry of optimizedRoute is the starting address.
C3_StartFirst ==
    (response.kind = "route" /\ Truthy(req.startingAddress))
        => response.optimizedRoute[1] = req.startingAddress

\* C4: a returned route holds exactly the input addresses whose geocoding
\* succeeded, each as often as it was resolved, and the path of the maps URL
\* holds the same addresses.
C4_RouteCoversResolved ==
    response.kind = "route" =>
        LET route == response.optimizedRoute
            segs == Split(Tail(response.googleMapsUrl), "/")
            resolvedTimes(a) ==
                Cardinality({i \in ResolvedAt : inputAddresses[i] = a})
        IN /\ Len(route) = ResolvedCount
           /\ Len(segs) = ResolvedCount
           /\ \A i \in 1..Len(inputAddresses) :
                 /\ Count(route, inputAddresses[i]) = resolvedTimes(inputAddresses[i])
                 /\ Cardinality({j \in 1..Len(segs) :
                        PercentDecode(segs[j]) = inputAddresses[i].s})
                      = resolvedTimes(inputAddresses[i])

\* C5: once the geocoding is over with fewer than 2 addresses resolved, the
\* handler has answered with an error and no route or maps URL, and the
\* optimizer (nearestNeighborOrder, twoOpt) was never entered; when no lookup
\* threw, the answer is the 400 "Unable to geocode enough addresses".
C5_TooFewStops ==
    (geocoded # <<>> /\ pc # "geocoding" /\ ResolvedCount < 2) =>
        /\ pc = "done"
        /\ response.kind = "error"
        /\ response.optimizedRoute = <<>>
        /\ response.googleMapsUrl = <<>>
        /\ optCalls = 0
        /\ (\A i \in 1..Len(geocoded) : geocoded[i].st # "rejected")
               => (response.status = 400 /\ response.error = TooFewValidMsg)

C5_Witness ==
    /\ pc = "done"
    /\ Len(geocoded) >= 3
    /\ ResolvedCount = 1
    /\ \E i \in 1..Len(geocoded) : geocoded[i].st = "null"
    /\ response.status = 400
    /\ response.error = TooFewValidMsg
    /\ optCalls = 0

\* A request whose addresses are missing, no array, empty, or hold an entry
\* that is no string.
Malformed(r) ==
    /\ r.method = "POST"
    /\ r.json
    /\ \/ r.addresses.t # "array"
       \/ r.addresses.items = <<>>
       \/ \E p \in 1..Len(r.addresses.items) : ~IsString(r.addresses.items[p])

\* C6: a malformed request (addresses missing, not an array, empty, or with
\* an entry that is no string) is answered with the validation error, and no
\* geocoding lookup is ever sent for it.
C6_MalformedRejected ==
    (Malformed(req) /\ apiKeySet) =>
        /\ fetchIssued = {}
        /\ pc = "done" => (response.status = 400 /\ response.error = TooFewAddressesMsg)

\* C7: when the lookup of an address fails, whatever the cause, and at least
\* 2 other addresses have resolved, the request is answered with a route.
C7_FailureNonFatal ==
    (/\ pc = "done"
     /\ ~Malformed(req)
     /\ \E i \in 1..Len(geocoded) : geocoded[i].why \in FailureReplies
     /\ ResolvedCount >= 2)
        => response.kind = "route"

\* C8: every lookup is sent before any is answered, and whatever the order
\* of the answers, the stops handed to the optimizer are the resolved
\* addresses in input order: stop j is the j-th resolved input address.
C8_StopsInInputOrder ==
    /\ pc = "geocoding" =>
          \A i \in 1..Len(geocoded) : geocoded[i].st = "pending" => i \in fetchIssued
    /\ optCalls > 0 =>
          /\ Len(valid) = ResolvedCount
          /\ Len(points) = ResolvedCount
          /\ \A j \in 1..Len(valid) :
                /\ valid[j].address = inputAddresses[ResolvedIndex(j)]
                /\ valid[j].coord = geocoded[ResolvedIndex(j)].coord
                /\ points[j] = valid[j].coord

C8_Witness ==
    /\ outOfOrder
    /\ optCalls > 0
    /\ Len(valid) >= 3
    /\ valid[1].address # valid[2].address
    /\ \E i \in fetchIssued : i < Len(geocoded) /\ geocoded[i].st = "coord"

\* C9: the maps URL of a route is the directions prefix followed by one path
\* segment per route entry, segment j being the percent-encoding of
\* optimizedRoute[j], in the order of optimizedRoute.
C9_MapsUrl ==
    response.kind = "route" =>
        LET route == response.optimizedRoute
            url == response.googleMapsUrl
            segs == Split(Tail(url), "/")
        IN /\ Head(url) = MapsDirPrefix
           /\ Len(segs) = Len(route)
           /\ \A j \in 1..Len(route) :
                 /\ segs[j] = encodeURIComponent(route[j].s)
                 /\ PercentDecode(segs[j]) = route[j].s

C9_Witness ==
    /\ response.kind = "route"
    /\ Len(response.optimizedRoute) >= 3
    /\ \E j \in 2..Len(response.optimizedRoute) :
          /\ response.optimizedRoute[j].s = FreeText
          /\ response.optimizedRoute[1].s # FreeText

\* C10: the length of the tour, while twoOpt works on it and when it
\* returns, is at most the length of the tour nearestNeighborOrder returned.
C10_NonIncreasing ==
    pc \in {"while", "for", "ret"} =>
        FLeq(TourLength(points, order), TourLength(points, nnOrder))

C10_Witness ==
    /\ pc = "ret"
    /\ reversals > 0
    /\ TourLength(points, order).v < TourLength(points, nnOrder).v

\* C11: twoOpt terminates: every call of it comes to its return and stays
\* returned, and when it got a tour of more than 3 entries its while loop has
\* by then run a pass, the last one, in which no reversal was performed.
C11_Terminates ==
    <>[](/\ pc = "ret"
         /\ Len(order) > 3 => (passes >= 1 /\ passReversals = 0))

C11_Witness ==
    /\ pc = "ret"
    /\ Len(order) > 3
    /\ reversals > 0
    /\ passes >= 2
    /\ passReversals = 0

\* C12: twoOpt called again with the same points and the tour it returned
\* performs no reversal and returns that same tour.
C12_Idempotent ==
    (pc = "ret" /\ prior.called) => (order = prior.tour /\ reversals = 0)

C12_Witness ==
    /\ pc = "ret"
    /\ prior.called
    /\ prior.reversals > 0
    /\ prior.tour # nnOrder
    /\ passes = 1
    /\ order = prior.tour

\* C13: when the optimizer returns, the tour is [0] if it was given exactly
\* 1 point and is empty if it was given none.
C13_TrivialTours ==
    pc = "ret" =>
        /\ Len(points) = 1 => order = <<0>>
        /\ Len(points) = 0 => order = <<>>

\* A request with a starting address and one destination, both strings and
\* different from each other.
StartPlusOne(r) ==
    /\ r.method = "POST"
    /\ r.json
    /\ r.addresses.t = "array"
    /\ Len(r.addresses.items) = 1
    /\ IsString(r.addresses.items[1])
    /\ IsString(r.startingAddress)
    /\ Truthy(r.startingAddress)
    /\ r.startingAddress # r.addresses.items[1]

\* C14: a request with a starting address and a single destination, neither
\* of which fails to geocode, is answered with the route [start, destination].
C14_StartPlusOneRoute ==
    (/\ pc = "done"
     /\ apiKeySet
     /\ StartPlusOne(req)
     /\ \A i \in 1..Len(geocoded) : geocoded[i].st = "coord")
        => /\ response.kind = "route"
           /\ response.optimizedRoute = <<req.startingAddress, req.addresses.items[1]>>

\* The side of the square whose corners are the 4 points pts, or 0 when pts
\* are not the corners of a square: from every corner two others are one
\* side away and the third is farther, the same diagonal for all.
SquareSide(pts) ==
    IF Len(pts) = 4 /\ \A j \in 1..4 : CoordFinite(pts[j])
    THEN LET d(a, b) == haversine(pts[a], pts[b]).v
             sides == {x \in {d(1, 2), d(1, 3), d(1, 4)} :
                          /\ x > 0
                          /\ \A a \in 1..4 :
                                /\ Cardinality({b \in 1..4 : d(a, b) = x}) = 2
                                /\ Cardinality({b \in 1..4 : d(a, b) > x}) = 1
                          /\ Cardinality({d(a, b) : a, b \in 1..4}) = 3}
         IN IF sides = {} THEN 0 ELSE CHOOSE x \in sides : TRUE
    ELSE 0

\* The tour ord over the corners pts of a square steps along a side each time.
PerimeterTour(pts, ord) ==
    /\ IsPermutation(ord, 4)
    /\ \A p \in 0..2 : distance(pts, ord, p, p + 1).v = SquareSide(pts)

\* The tour ord over the corners pts of a square steps across a diagonal.
CrossingTour(pts, ord) ==
    /\ IsPermutation(ord, 4)
    /\ \E p \in 0..2 : distance(pts, ord, p, p + 1).v > SquareSide(pts)

\* C15 as the spec states it: for the 4 corners of a square given in an
\* order that crosses the square, the nearest-neighbor tour holds the
\* crossing, twoOpt performs a reversal, and the final tour is a perimeter
\* tour strictly shorter than the nearest-neighbor tour.
C15_CrossingRemoved ==
    (pc = "ret" /\ SquareSide(points) > 0 /\ CrossingTour(points, InputOrder(4))) =>
        /\ CrossingTour(points, nnOrder)
        /\ reversals > 0
        /\ PerimeterTour(points, order)
        /\ TourLength(points, order).v < TourLength(points, nnOrder).v

\* C15, amended: for the 4 corners of a square in any input order, crossing
\* or not, the nearest-neighbor tour is already a perimeter tour, twoOpt
\* performs no reversal, and the final tour is that same perimeter tour.
C15_SquareNoCrossing ==
    (pc = "ret" /\ SquareSide(points) > 0) =>
        /\ PerimeterTour(points, nnOrder)
        /\ reversals = 0
        /\ passes = 1
        /\ order = nnOrder

C15_Witness ==
    /\ pc = "ret"
    /\ SquareSide(points) > 0
    /\ CrossingTour(points, InputOrder(4))
    /\ nnOrder # InputOrder(4)
    /\ PerimeterTour(points, order)
    /\ passes = 1

\* The coordinate b lies on the segment from s to a, strictly inside it.
StrictlyBetween(b, s, a) ==
    /\ CoordFinite(b) /\ CoordFinite(s) /\ CoordFinite(a)
    /\ LET ax == a.lat.v - s.lat.v
           ay == a.lng.v - s.lng.v
           bx == b.lat.v - s.lat.v
           by == b.lng.v - s.lng.v
       IN /\ ax * by - ay * bx = 0
          /\ 0 < ax * bx + ay * by
          /\ ax * bx + ay * by < ax * ax + ay * ay

\* C16: for 3 stops start, A, B (indices 0, 1, 2) on a line with B strictly
\* between start and A, the optimizer returns the tour [0, 2, 1].
C16_Collinear ==
    (pc = "ret" /\ Len(points) = 3 /\ StrictlyBetween(points[3], points[1], points[2]))
        => order = <<0, 2, 1>>

C16_Witness ==
    /\ pc = "ret"
    /\ Len(points) = 3
    /\ StrictlyBetween(points[3], points[1], points[2])
    /\ nnOrder = <<0, 2, 1>>
    /\ order = <<0, 2, 1>>

\* All the points are one and the same finite coordinate.
AllSame(pts) ==
    \A i, j \in 1..Len(pts) : CoordFinite(pts[i]) /\ pts[i] = pts[j]

\* C17 as the spec states it: when all n stops (n >= 1) have the same
\* coordinate, nearestNeighborOrder returns [0, 1, ..., n-1], twoOpt performs
\* no reversal and ends after exactly one pass, and the returned tour is a
\* permutation of total length 0.
C17_IdenticalOnePass ==
    (pc = "ret" /\ Len(points) >= 1 /\ AllSame(points)) =>
        /\ nnOrder = InputOrder(Len(points))
        /\ reversals = 0
        /\ passes = 1
        /\ IsPermutation(order, Len(points))
        /\ TourLength(points, order) = Fin(0)

\* C17, amended: when all n >= 1 stops have the same coordinate,
\* nearestNeighborOrder returns [0, 1, ..., n-1], twoOpt performs no reversal,
\* running exactly one pass when n > 3 and none when n <= 3, and the returned
\* tour is that same tour, a permutation of total length 0.
C17_Identical ==
    (pc = "ret" /\ Len(points) >= 1 /\ AllSame(points)) =>
        /\ nnOrder = InputOrder(Len(points))
        /\ reversals = 0
        /\ passes = (IF Len(points) > 3 THEN 1 ELSE 0)
        /\ order = nnOrder
        /\ IsPermutation(order, Len(points))
        /\ TourLength(points, order) = Fin(0)

C17_Witness ==
    /\ pc = "ret"
    /\ Len(points) > 3
    /\ AllSame(points)
    /\ passes = 1
    /\ order = InputOrder(Len(points))

C19_NonNegative ==
    (pc = "ret" /\ Len(points) >= 2) =>
        \A i, j \in 1..Len(points) :
            /\ IsFinite(haversine(points[i], points[j]))
            /\ haversine(points[i], points[j]).v >= 0
            /\ haversine(points[i], points[i]) = Fin(0)

\* C20: the route dialog is open only through handlePlanRoute run with 2 or
\* more sales selected; handlePlanRoute run with fewer than 2 leaves the
\* dialog closed and shows the error toast, and with 2 or more opens it.
C20_PlanRouteNeedsTwo ==
    /\ showRouteDialog =>
          (lastHandler = "handlePlanRoute" /\ Len(selectedSales) >= 2)
    /\ lastHandler = "handlePlanRoute" =>
          IF Len(selectedSales) < 2
          THEN ~showRouteDialog /\ toast = SelectionRequiredToast
          ELSE showRouteDialog /\ toast = "none"

C20_Witness ==
    /\ lastHandler = "handlePlanRoute"
    /\ Len(selectedSales) = 1
    /\ ~showRouteDialog
    /\ toast = SelectionRequiredToast

\* The indices of pts that the tour ord does not hold before its position p
\* (counted from 1).
UnvisitedBefore(pts, ord, p) ==
    {j \in 0..(Len(pts) - 1) : \A q \in 1..(p - 1) : ord[q] # j}

\* C22: every index that nearestNeighborOrder has appended to the tour was
\* unvisited when it was appended, no unvisited index was closer to the index
\* appended before it, and among the unvisited indices at that same distance
\* it is the lowest.
C22_NearestLowestIndex ==
    pc = "nn" =>
        \A p \in 2..Len(order) :
            LET U == UnvisitedBefore(points, order, p)
                d(j) == haversine(At(points, order[p - 1]), At(points, j))
            IN /\ order[p] \in U
               /\ \A j \in U : /\ ~FLess(d(j), d(order[p]))
                               /\ d(j) = d(order[p]) => order[p] <= j

\* A step chose among several unvisited indices at the least distance, and a
\* step passed over a lower index that was farther away.
C22_Witness ==
    /\ pc = "nn"
    /\ Len(order) >= 3
    /\ \E p \in 2..Len(order) :
          \E j \in UnvisitedBefore(points, order, p) :
              /\ j > order[p]
              /\ haversine(At(points, order[p - 1]), At(points, j))
                     = haversine(At(points, order[p - 1]), At(points, order[p]))
    /\ \E p \in 2..Len(order) :
          \E j \in UnvisitedBefore(points, order, p) :
              /\ j < order[p]
              /\ FLess(haversine(At(points, order[p - 1]), At(points, order[p])),
                       haversine(At(points, order[p - 1]), At(points, j)))

\* C23: every pair of positions (i, k) that twoOpt examines has
\* 1 <= i < k <= n-2, and the tour it works on and returns has at position 0
\* and at position n-1 the entries of the tour it was given.
C23_EndpointsKept ==
    /\ pc = "for" => (1 <= ti /\ ti < tk /\ tk <= Len(order) - 2)
    /\ (pc \in {"while", "for", "ret"} /\ Len(order) > 0) =>
          /\ order[1] = nnOrder[1]
          /\ order[Len(order)] = nnOrder[Len(order)]

\* twoOpt has returned after a reversal that reached position n-2.
C23_Witness ==
    /\ pc = "ret"
    /\ Len(order) >= 5
    /\ reversals > 0
    /\ order[Len(order) - 1] # nnOrder[Len(order) - 1]
    /\ order[1] = nnOrder[1]
    /\ order[Len(order)] = nnOrder[Len(order)]

\* C24: called with a tour of at most 3 entries, twoOpt returns at once: it
\* starts no pass of its loop, examines no pair of positions, performs no
\* reversal, and the tour it returns is the tour it was given.
C24_ShortTourUntouched ==
    (pc \in {"while", "for", "ret"} /\ Len(nnOrder) <= 3) =>
        /\ pc = "ret"
        /\ passes = 0
        /\ reversals = 0
        /\ order = nnOrder

\* twoOpt has returned a tour of 3 distinct points.
C24_Witness ==
    /\ pc = "ret"
    /\ Len(nnOrder) = 3
    /\ prior.called
    /\ points[1] # points[2] /\ points[2] # points[3] /\ points[1] # points[3]
    /\ passes = 0
    /\ order = nnOrder

\* C25: when twoOpt examines the pair (i, k), with delta =
\* [dist(i-1,i) + dist(k,k+1)] - [dist(i-1,k) + dist(i,k+1)] taken on the tour
\* as it is at that moment: if delta > 1e-6 the tour afterwards is the tour
\* with positions i..k reversed, every other position as before, and its
\* total length (when that is a number) is the length before minus delta;
\* otherwise the tour is left as it is.
C25_ReversalStep ==
    [][pc = "for" =>
          LET d(a, b) == haversine(At(points, At(order, a)), At(points, At(order, b)))
              delta == FSub(FAdd(d(ti - 1, ti), d(tk, tk + 1)),
                            FAdd(d(ti - 1, tk), d(ti, tk + 1)))
          IN IF IsFinite(delta) /\ delta.v > Eps
             THEN /\ Len(order') = Len(order)
                  /\ \A p \in 0..(Len(order) - 1) :
                        At(order', p) = IF ti <= p /\ p <= tk
                                        THEN At(order, ti + tk - p)
                                        ELSE At(order, p)
                  /\ reversals' = reversals + 1
                  /\ IsFinite(TourLength(points, order)) =>
                        TourLength(points, order')
                            = FSub(TourLength(points, order), delta)
             ELSE order' = order /\ reversals' = reversals]_vars

\* A pass of twoOpt has performed a reversal and then, on the tour so changed,
\* a second one.
C25_Witness ==
    /\ pc \in {"for", "while"}
    /\ passReversals >= 2
    /\ IsFinite(TourLength(points, order))
    /\ TourLength(points, order).v < TourLength(points, nnOrder).v

\* C29: the list the handler geocodes is, when the request has a starting
\* address (a non-empty one), the addresses with the starting address at
\* index 0: put in front when addresses[0] differs from it, and the addresses
\* as they are when addresses[0] is it already; without a starting address
\* the list is the addresses as they are.
C29_StartAtIndexZero ==
    inputAddresses # <<>> =>
        LET a == req.addresses.items
            st == req.startingAddress
        IN IF Truthy(st)
           THEN /\ inputAddresses[1] = st
                /\ a[1] = st => inputAddresses = a
                /\ a[1] # st => inputAddresses = <<st>> \o a
                /\ Len(inputAddresses) \in {Len(a), Len(a) + 1}
                /\ Len(geocoded) = Len(inputAddresses)
           ELSE inputAddresses = a /\ Len(geocoded) = Len(a)

\* A request whose addresses begin with its starting address, as the route
\* dialog sends it, has been answered with a route.
C29_Witness ==
    /\ response.kind = "route"
    /\ Truthy(req.startingAddress)
    /\ req.addresses.items[1] = req.startingAddress
    /\ Len(req.addresses.items) >= 3
    /\ inputAddresses = req.addresses.items
    /\ Len(geocoded) = Len(req.addresses.items)

\* C21: every URL that the results of firecrawl-scrape-batch report as failed
\* was scraped at least twice: app.scrapeUrl was called for it again after
\* its first failure.
C21_RetriedBeforeFailed ==
    scrapeResponse.kind = "results" =>
        \A p \in 1..Len(scrapeResponse.results) :
            ~scrapeResponse.results[p].success => scrapeCalls[p] >= 2

\* C27: at most 3 scrapes are in flight at any moment; the scrapes are
\* started in the order of the URLs, 3 consecutive URLs to a batch; and while
\* a scrape of an earlier batch is unsettled no scrape of a later batch has
\* been started.
C27_BatchesOfThree ==
    LET n == Len(scrapes)
        batchOf(p) == (p - 1) \div 3
    IN /\ Cardinality({p \in 1..n : scrapes[p].st = "inFlight"}) <= 3
       /\ \A p, q \in 1..n :
             (p < q /\ scrapes[q].st # "notStarted") => scrapes[p].st # "notStarted"
       /\ \A p, q \in 1..n :
             (batchOf(p) < batchOf(q) /\ scrapes[q].st # "notStarted")
                 => scrapes[p].st = "settled"
       /\ \A p, q \in 1..n :
             (batchOf(p) = batchOf(q) /\ scrapes[q].st # "notStarted")
                 => scrapes[p].st # "notStarted"

\* The second batch is in flight after a first batch of 3 in which a scrape
\* failed and a scrape succeeded.
C27_Witness ==
    /\ pc = "scraping"
    /\ Len(scrapes) >= 4
    /\ scrapes[4].st = "inFlight"
    /\ \E p \in 1..3 : scrapes[p].outcome = "throws"
    /\ \E p \in 1..3 : scrapes[p].outcome = "success"
    /\ Len(allResults) = 3

\* C28: once firecrawl-scrape-batch, with its API key configured, has
\* answered a request with a non-empty urls array, the answer is success with
\* one result per URL in the order of the URLs, each marked success exactly
\* when the scrape of its URL succeeded, totalProcessed is the number of URLs
\* and successCount the number of results marked success; every URL was
\* scraped, whatever the outcomes of the others.
C28_OneEntryPerUrl ==
    (/\ pc = "scrapeDone"
     /\ scrapeReq.method = "POST"
     /\ scrapeReq.json
     /\ scrapeReq.urls.t = "array"
     /\ Len(scrapeReq.urls.items) > 0
     /\ firecrawlKeySet) =>
        LET urls == scrapeReq.urls.items
            r == scrapeResponse
        IN /\ r.kind = "results"
           /\ r.status = 200
           /\ r.success
           /\ Len(r.results) = Len(urls)
           /\ \A p \in 1..Len(urls) :
                 /\ r.results[p].url = urls[p]
                 /\ r.results[p].success = (scrapes[p].outcome = "success")
                 /\ scrapes[p].st = "settled"
                 /\ scrapeCalls[p] >= 1
           /\ r.totalProcessed = Len(urls)
           /\ r.successCount =
                  Cardinality({p \in 1..Len(r.results) : r.results[p].success})

\* A request of 4 URLs has been answered after scrapes that threw, returned
\* an error result and timed out in the first batch, and a success after them.
C28_Witness ==
    /\ pc = "scrapeDone"
    /\ scrapeResponse.kind = "results"
    /\ Len(scrapes) = 4
    /\ scrapeReq.urls.items[1] # scrapeReq.urls.items[2]
    /\ scrapes[1].outcome = "throws"
    /\ scrapes[2].outcome = "errorResult"
    /\ scrapes[3].outcome = "timeout"
    /\ scrapes[4].outcome = "success"
    /\ scrapeResponse.successCount = 1
    /\ scrapeResponse.totalProcessed = 4

\* C26: a route answered by the LLM-based handler holds every address of the
\* request as often as the request does: it is the model's array when that
\* is a rearrangement of the addresses, and the addresses in their original
\* order in every other case.
C26_RouteHoldsAllAddresses ==
    llmResponse.kind = "route" =>
        LET a == llmReq.addresses.items
            route == llmResponse.optimizedRoute
        IN /\ Len(route) = Len(a)
           /\ \A x \in AnswerItems : Count(route, x) = Count(a, x)

\* C30: isOptimizing is true only while an optimize-route request of the
\* dialog is unanswered; every answer to such a request, whatever its
\* outcome, leaves isOptimizing false, and isOptimizing, once true, becomes
\* false again; and a step taken while the starting address is blank sends
\* no request and does not make isOptimizing true.
C30_IsOptimizing ==
    /\ [](isOptimizing => invokes # <<>>)
    /\ [][Len(invokes') < Len(invokes) => ~isOptimizing']_vars
    /\ [][Trim(dialogStartingAddress) = <<>> =>
              (Len(invokes') <= Len(invokes) /\ (isOptimizing' => isOptimizing))]_vars
    /\ (isOptimizing ~> ~isOptimizing)

\* A request was sent with a starting address and answered with an error, and
\* then handleOptimizeRoute was called once more with a blank address.
C30_Witness ==
    /\ lastHandler = "handleOptimizeRoute"
    /\ toast = StartRequiredToast
    /\ dialogStartingAddress = <<" ">>
    /\ ~isOptimizing
    /\ invokes = <<>>
    /\ optimizedRoute # <<>>

====
